---- MODULE Spec2Model ----
(***************************************************************************)
(* Frame compositor (OS.GetCanvas) and sidebar layout / hit-test of tuios, *)
(* translated from internal/app/render.go and render_sidebar.go.           *)
(*                                                                         *)
(* Window indices are the Go indices 0..len-1; the window list is a TLA+   *)
(* sequence, so window i of the code is Windows[i + 1] (operator Win).     *)
(***************************************************************************)
EXTENDS Integers, Sequences, FiniteSets, TLC

\* ------------------------------------------------------------------ bounds
\* The windows of the compositor specifications, by ID (the ID of window i of
\* the list is i + 1).
WindowIDs == {1, 2}
NumWindows == Cardinality(WindowIDs)
\* Frames (GetCanvas calls) of one behaviour; a layer's serial is its frame.
MaxFrames == 3
\* Events of the collaborators (move, focus, animation, ...) of one behaviour.
MaxEvents == 2
\* Layers renderOverlays may return.
MaxOverlays == 1
\* Windows of the sidebar specification's window list.
MaxSidebarWindows == 3
MaxRenderWidth == 1000
\* GetRenderWidth(), GetUsableHeight(), GetTopMargin(), config.DockHeight.
ViewportWidth == 10
ViewportHeight == 6
TopMargin == 1
DockHeight == 2
\* Width and height of every window of the model.
WinWidth == 4
WinHeight == 3

\* ------------------------------------------------------- program constants
SidebarMinWidth == 25
SidebarMaxWidth == 50
\* config.ZIndexAnimating: the elevated z-order of an animating window.
ZIndexAnimating == 9999

\* Window positions (X, Y) the collaborators may give a window: fully inside
\* the viewport, cut by the left edge, outside the margin of 5 but inside the
\* margin of 20, outside both margins, cut by the top edge.
Positions == {<<0, 1>>, <<-2, 1>>, <<-12, 1>>, <<-30, 1>>, <<0, -2>>}
ZValues == {1, 2}
Workspaces == {1, 2}
DockPositions == {"hidden", "top", "bottom"}

VARIABLES
    Windows,              \* m.Windows: sequence of window records
    Animations,           \* m.Animations: set of [Window (its ID), Complete]
    CurrentWorkspace,     \* m.CurrentWorkspace
    FocusedWindow,        \* m.FocusedWindow (Go index, -1 for none)
    DockbarPosition,      \* config.DockbarPosition
    SidebarVisible,       \* m.SidebarVisible
    SidebarFocused,       \* m.SidebarFocused
    SidebarSelectedIndex, \* m.SidebarSelectedIndex
    renderWidth,          \* what m.GetRenderWidth() returns
    layers,               \* the layers handed to canvas.AddLayers by the last frame
    decisions,            \* per window, the branch the last frame took for it
    lastRender,           \* the render argument of the last frame
    frame,                \* number of GetCanvas calls so far
    events,               \* number of collaborator events so far
    clickX, clickY,       \* arguments of the last FindSidebarItemClicked
    clickResult,          \* its result
    Mode,                 \* m.Mode
    sidebarWidth,         \* what the last GetSidebarWidth call returned
    poolTrace,            \* pool and buffer operations of the last frame, in order
    passthrough,          \* m.KittyPassthrough and m.SixelPassthrough
    ttyLog,               \* what the last graphics call did to /dev/tty
    gfxSeen,              \* the geometry the last refresh was given, by window ID
    lastOp                \* the operation that produced this state

vars == <<Windows, Animations, CurrentWorkspace, FocusedWindow, DockbarPosition,
          SidebarVisible, SidebarFocused, SidebarSelectedIndex, renderWidth,
          layers, decisions, lastRender, frame, events, clickX, clickY,
          clickResult, Mode, sidebarWidth, poolTrace, passthrough, ttyLog,
          gfxSeen, lastOp>>

sidebarVars == <<SidebarVisible, SidebarFocused, SidebarSelectedIndex>>
clickVars == <<clickX, clickY, clickResult>>
frameVars == <<layers, decisions, lastRender, frame, poolTrace>>
gfxVars == <<passthrough, ttyLog, gfxSeen>>
restVars == <<Mode, sidebarWidth, gfxVars>>

\* ------------------------------------------------------------------ layers
\* window.CachedLayer == nil
Nil == [kind |-> "nil", ID |-> 0, X |-> 0, Y |-> 0, Z |-> 0, serial |-> 0]

\* lipgloss.NewLayer(content).X(x).Y(y).Z(z).ID(id); serial stands for the
\* identity of the object (and of the content rendered for it).
NewLayer(id, x, y, z, serial) ==
    [kind |-> "window", ID |-> id, X |-> x, Y |-> y, Z |-> z, serial |-> serial]

ChromeLayer(kind, serial) ==
    [kind |-> kind, ID |-> 0, X |-> 0, Y |-> 0, Z |-> 0, serial |-> serial]

Max(a, b) == IF a >= b THEN a ELSE b

\* clipWindowContent: the origin of a window cut by the top or left edge of
\* the viewport is shifted to 0 on that axis.
ClipOrigin(v) == Max(v, 0)

\* m.KittyPassthrough == nil, w.Terminal == nil
NoPassthrough == [present |-> FALSE, placements |-> <<>>, pending |-> <<>>]
NoTerminal == [present |-> FALSE, scrollback |-> 0]
Protocols == {"kitty", "sixel"}
\* No graphics call yet: no device open, nothing written.
NoTty == [opens |-> 0, failed |-> FALSE, written |-> <<>>, dropped |-> {}]

\* ----------------------------------------------------------------- helpers
NumWin == Len(Windows)
Indices == 0 .. (NumWin - 1)
Win(i) == Windows[i + 1]

GetTopMargin == TopMargin
GetRenderWidth == renderWidth
GetUsableHeight == ViewportHeight

\* window.ClearDirtyFlags()
ClearDirtyFlags(w) ==
    [w EXCEPT !.Dirty = FALSE, !.ContentDirty = FALSE, !.PositionDirty = FALSE]

\* ------------------------------------------------------- GetCanvas, per window
\* render.go:39-48
IsAnimatingAnyWindow(i) ==
    \E anim \in Animations : ~anim.Complete

IsAnimating(i) ==
    \E anim \in Animations : anim.Window = Win(i).ID /\ ~anim.Complete

\* render.go:54-57
MarginAlwaysWide(i) == 20

Margin(i) == IF IsAnimating(i) THEN 20 ELSE 5

\* render.go:59-62
IsVisible(i) ==
    LET window == Win(i)
        margin == Margin(i)
    IN  /\ window.X + window.Width >= -margin
        /\ window.X <= GetRenderWidth + margin
        /\ window.Y + window.Height >= -margin
        /\ window.Y <= GetUsableHeight + GetTopMargin + margin

\* render.go:68-70
IsFullyVisible(i) ==
    LET window == Win(i)
    IN  /\ window.X >= 0
        /\ window.Y >= GetTopMargin
        /\ window.X + window.Width <= GetRenderWidth
        /\ window.Y + window.Height <= GetUsableHeight + GetTopMargin

\* render.go:72
IsFocused(i) ==
    FocusedWindow = i /\ FocusedWindow >= 0 /\ FocusedWindow < NumWin

\* render.go:84
CleanCacheHit(i) ==
    LET window == Win(i)
    IN  /\ window.CachedLayer # Nil
        /\ ~window.Dirty /\ ~window.ContentDirty /\ ~window.PositionDirty

\* render.go:89-93
NeedsRedraw(i) ==
    LET window == Win(i)
    IN  \/ window.CachedLayer = Nil
        \/ window.Dirty \/ window.ContentDirty \/ window.PositionDirty
        \/ window.CachedLayer.X # window.X
        \/ window.CachedLayer.Y # window.Y
        \/ window.CachedLayer.Z # window.Z

\* render.go:95, second disjunct
SuppressRedrawUnlessPositionDirty(i) ==
    LET window == Win(i)
    IN  /\ ~IsFocused(i) /\ ~IsFullyVisible(i)
        /\ ~window.ContentDirty /\ ~window.IsBeingManipulated
        /\ ~window.PositionDirty
        /\ window.CachedLayer # Nil

SuppressRedrawIgnoringManipulation(i) ==
    LET window == Win(i)
    IN  /\ ~IsFocused(i) /\ ~IsFullyVisible(i)
        /\ ~window.ContentDirty
        /\ window.CachedLayer # Nil

SuppressRedraw(i) ==
    LET window == Win(i)
    IN  /\ ~IsFocused(i) /\ ~IsFullyVisible(i)
        /\ ~window.ContentDirty /\ ~window.IsBeingManipulated
        /\ window.CachedLayer # Nil

\* render.go:32-131: the branch the loop body takes for window i
DecisionNeverReuse(i) ==
    IF Win(i).Workspace # CurrentWorkspace THEN "skip_workspace"
    ELSE IF Win(i).Minimized /\ ~IsAnimating(i) THEN "skip_minimized"
    ELSE IF ~IsVisible(i) THEN "skip_invisible"
    ELSE "redraw"

Decision(i) ==
    IF Win(i).Workspace # CurrentWorkspace THEN "skip_workspace"
    ELSE IF Win(i).Minimized /\ ~IsAnimating(i) THEN "skip_minimized"
    ELSE IF ~IsVisible(i) THEN "skip_invisible"
    ELSE IF CleanCacheHit(i) THEN "reuse_clean"
    ELSE IF ~NeedsRedraw(i) \/ SuppressRedraw(i) THEN "reuse_override"
    ELSE "redraw"

\* render.go:116-119
ZIndex(i) == IF IsAnimating(i) THEN ZIndexAnimating ELSE Win(i).Z

\* render.go:121-127: the layer a redraw of window i builds in frame serial
RedrawnLayer(i, serial) ==
    NewLayer(Win(i).ID, ClipOrigin(Win(i).X), ClipOrigin(Win(i).Y), ZIndex(i), serial)

\* The loop body that clears the flags of a redrawn window and keeps no layer.
WindowAfterFrameNoStore(i, serial) ==
    IF Decision(i) = "redraw" THEN ClearDirtyFlags(Win(i)) ELSE Win(i)

\* The window after the loop body ran for it (render.go:127-130).
WindowAfterFrame(i, serial) ==
    IF Decision(i) = "redraw"
    THEN ClearDirtyFlags([Win(i) EXCEPT !.CachedLayer = RedrawnLayer(i, serial)])
    ELSE Win(i)

\* The layers the loop body appends for window i (render.go:85, 96, 128).
WindowLayers(i, serial) ==
    CASE Decision(i) = "redraw" -> <<RedrawnLayer(i, serial)>>
      [] Decision(i) \in {"reuse_clean", "reuse_override"} -> <<Win(i).CachedLayer>>
      [] OTHER -> <<>>

\* render.go:32-131: the appends of windows i, i+1, ..., in list order
RECURSIVE AllWindowLayers(_, _)
AllWindowLayers(i, serial) ==
    IF i >= NumWin THEN <<>>
    ELSE WindowLayers(i, serial) \o AllWindowLayers(i + 1, serial)

\* render.go:133-149: overlays, dock, sidebar
ChromeLayersDockAlways(render, nOverlays, serial) ==
    IF ~render THEN <<>>
    ELSE [k \in 1 .. nOverlays |-> ChromeLayer("overlay", serial)]
         \o <<ChromeLayer("dock", serial)>>
         \o (IF SidebarVisible THEN <<ChromeLayer("sidebar", serial)>> ELSE <<>>)

ChromeLayers(render, nOverlays, serial) ==
    IF ~render THEN <<>>
    ELSE [k \in 1 .. nOverlays |-> ChromeLayer("overlay", serial)]
         \o (IF DockbarPosition # "hidden" THEN <<ChromeLayer("dock", serial)>> ELSE <<>>)
         \o (IF SidebarVisible THEN <<ChromeLayer("sidebar", serial)>> ELSE <<>>)

\* render.go:17-19, 151-153: the buffer is taken from the pool, the layers are
\* appended to it and handed to the canvas, and the deferred PutLayerSlice
\* runs when the function returns.
FrameTracePutFirst(ls) ==
    <<"GetLayerSlice", "PutLayerSlice">>
    \o [k \in 1 .. Len(ls) |-> "append"]
    \o <<"AddLayers">>

FrameTrace(ls) ==
    <<"GetLayerSlice">>
    \o [k \in 1 .. Len(ls) |-> "append"]
    \o <<"AddLayers", "PutLayerSlice">>

\* OS.GetCanvas(render), render.go:14-153
GetCanvas(render, nOverlays) ==
    /\ frame < MaxFrames
    /\ frame' = frame + 1
    /\ Windows' = [k \in 1 .. NumWin |-> WindowAfterFrame(k - 1, frame + 1)]
    /\ layers' = AllWindowLayers(0, frame + 1) \o ChromeLayers(render, nOverlays, frame + 1)
    /\ decisions' = [k \in 1 .. NumWin |-> Decision(k - 1)]
    /\ poolTrace' = FrameTrace(AllWindowLayers(0, frame + 1)
                               \o ChromeLayers(render, nOverlays, frame + 1))
    /\ lastRender' = render
    /\ lastOp' = "GetCanvas"
    /\ UNCHANGED <<Animations, CurrentWorkspace, FocusedWindow, DockbarPosition,
                   sidebarVars, renderWidth, events, clickVars, restVars>>

\* ------------------------------------------------ sidebar (render_sidebar.go)
\* The width without the minimum.
GetSidebarWidthNoMinimum ==
    LET width == (GetRenderWidth * 20) \div 100
    IN  IF width > SidebarMaxWidth THEN SidebarMaxWidth ELSE width

\* OS.GetSidebarWidth, render_sidebar.go:39-48; int(float64(w) * 0.20) of a
\* non-negative w is the integer part of w / 5.
GetSidebarWidth ==
    LET width == (GetRenderWidth * 20) \div 100
    IN  IF width < SidebarMinWidth THEN SidebarMinWidth
        ELSE IF width > SidebarMaxWidth THEN SidebarMaxWidth
        ELSE width

\* sort.Ints over the keys of workspaceWindows (render_sidebar.go:65-70,
\* 401-405): the workspaces that hold a window, ascending.
RECURSIVE SortedSeq(_)
SortedSeq(S) ==
    IF S = {} THEN <<>>
    ELSE LET m == CHOOSE x \in S : \A y \in S : x <= y
         IN  <<m>> \o SortedSeq(S \ {m})

SortedWorkspaces == SortedSeq({Win(i).Workspace : i \in Indices})

\* workspaceWindows[ws] (render_sidebar.go:60-63, 396-399): the indices of the
\* windows of workspace ws, in list order.
WorkspaceWindows(ws) == SortedSeq({i \in Indices : Win(i).Workspace = ws})

\* The layout without the gap row between workspaces.
RECURSIVE LayoutItemsNoGap(_, _, _)
LayoutItemsNoGap(workspaces, wsIdx, currentY) ==
    IF wsIdx > Len(workspaces) THEN <<>>
    ELSE LET indices == WorkspaceWindows(workspaces[wsIdx])
             items == [k \in 1 .. Len(indices) |->
                         [WindowIndex |-> indices[k],
                          StartY |-> currentY + k,
                          EndY |-> currentY + k + 1]]
         IN  items \o LayoutItemsNoGap(workspaces, wsIdx + 1,
                                       currentY + 1 + Len(indices))

\* render_sidebar.go:78-99: the items of workspaces[wsIdx..], the header of
\* workspaces[wsIdx] being row currentY.
RECURSIVE LayoutItems(_, _, _)
LayoutItems(workspaces, wsIdx, currentY) ==
    IF wsIdx > Len(workspaces) THEN <<>>
    ELSE LET indices == WorkspaceWindows(workspaces[wsIdx])
             items == [k \in 1 .. Len(indices) |->
                         [WindowIndex |-> indices[k],
                          StartY |-> currentY + k,
                          EndY |-> currentY + k + 1]]
             gap == IF wsIdx < Len(workspaces) THEN 1 ELSE 0
         IN  items \o LayoutItems(workspaces, wsIdx + 1,
                                  currentY + 1 + Len(indices) + gap)

\* render_sidebar.go:78-99: the header rows of workspaces[wsIdx..], as the set
\* of pairs <<workspace, row>> of the map layout.WorkspaceY.
RECURSIVE LayoutHeaders(_, _, _)
LayoutHeaders(workspaces, wsIdx, currentY) ==
    IF wsIdx > Len(workspaces) THEN {}
    ELSE LET indices == WorkspaceWindows(workspaces[wsIdx])
             gap == IF wsIdx < Len(workspaces) THEN 1 ELSE 0
         IN  {<<workspaces[wsIdx], currentY>>}
             \cup LayoutHeaders(workspaces, wsIdx + 1,
                                currentY + 1 + Len(indices) + gap)

\* OS.CalculateSidebarLayout, render_sidebar.go:52-102
CalculateSidebarLayout ==
    [Width |-> GetSidebarWidth,
     ItemPositions |-> LayoutItems(SortedWorkspaces, 1, 3),
     WorkspaceY |-> LayoutHeaders(SortedWorkspaces, 1, 3)]

\* One line of the sidebar's content, by what it shows.
Line(role, ws, idx) == [role |-> role, ws |-> ws, idx |-> idx]

\* render_sidebar.go:168-256: the lines appended for workspaces[wsIdx..]: the
\* header, one line per window, and a blank line unless the workspace is the
\* last one.
RECURSIVE WorkspaceLines(_, _)
WorkspaceLines(workspaces, wsIdx) ==
    IF wsIdx > Len(workspaces) THEN <<>>
    ELSE LET ws == workspaces[wsIdx]
             indices == WorkspaceWindows(ws)
         IN  <<Line("header", ws, -1)>>
             \o [k \in 1 .. Len(indices) |-> Line("item", ws, indices[k])]
             \o (IF wsIdx < Len(workspaces) THEN <<Line("blank", -1, -1)>> ELSE <<>>)
             \o WorkspaceLines(workspaces, wsIdx + 1)

\* OS.renderSidebar, render_sidebar.go:143-279: the content lines, top to
\* bottom. The container's border puts line k (counted from 0) on row k + 1 of
\* the layer, which is the position of the line in this sequence.
SidebarLines ==
    <<Line("title", -1, -1), Line("blank", -1, -1)>>
    \o WorkspaceLines(SortedWorkspaces, 1)
    \o (IF NumWin = 0
        THEN <<Line("blank", -1, -1), Line("empty", -1, -1), Line("empty", -1, -1)>>
        ELSE <<>>)
    \o <<Line("blank", -1, -1), Line("footer", -1, -1)>>

\* render_sidebar.go:386-389: the screen row of the sidebar's top
SidebarTopIgnoringDock == GetTopMargin

SidebarTop == IF DockbarPosition = "top" THEN DockHeight ELSE GetTopMargin

\* render_sidebar.go:410-426: the index of the item of workspaces[wsIdx..] on
\* row y, the header of workspaces[wsIdx] being row currentY; -1 if none.
RECURSIVE HitItems(_, _, _, _)
HitItems(workspaces, wsIdx, currentY, y) ==
    IF wsIdx > Len(workspaces) THEN -1
    ELSE LET indices == WorkspaceWindows(workspaces[wsIdx])
             gap == IF wsIdx < Len(workspaces) THEN 1 ELSE 0
         IN  IF \E k \in 1 .. Len(indices) : y = currentY + k
             THEN indices[CHOOSE k \in 1 .. Len(indices) : y = currentY + k]
             ELSE HitItems(workspaces, wsIdx + 1,
                           currentY + 1 + Len(indices) + gap, y)

\* OS.FindSidebarItemClicked, render_sidebar.go:372-427: the value returned
ClickedItem(x, y) ==
    IF ~SidebarVisible \/ NumWin = 0 THEN -1
    ELSE IF x >= GetSidebarWidth THEN -1
    ELSE HitItems(SortedWorkspaces, 1, SidebarTop + 3, y)

\* A pointer event on column x, row y is resolved by FindSidebarItemClicked.
FindSidebarItemClicked(x, y) ==
    /\ clickX' = x
    /\ clickY' = y
    /\ clickResult' = ClickedItem(x, y)
    /\ lastOp' = "FindSidebarItemClicked"
    /\ UNCHANGED <<Windows, Animations, CurrentWorkspace, FocusedWindow,
                   DockbarPosition, sidebarVars, renderWidth, frameVars, events, restVars>>

\* The toggle that leaves the keyboard focus on the sidebar it hides.
ToggleSidebarKeepingFocus ==
    /\ events < MaxEvents
    /\ events' = events + 1
    /\ SidebarVisible' = ~SidebarVisible
    /\ IF SidebarVisible'
       THEN /\ SidebarFocused' = TRUE
            /\ SidebarSelectedIndex' = FocusedWindow
       ELSE /\ SidebarFocused' = SidebarFocused
            /\ SidebarSelectedIndex' = -1
    /\ lastOp' = "ToggleSidebar"
    /\ UNCHANGED <<Windows, Animations, CurrentWorkspace, FocusedWindow,
                   DockbarPosition, renderWidth, frameVars, clickVars, restVars>>

\* OS.ToggleSidebar, render_sidebar.go:299-310
ToggleSidebar ==
    /\ events < MaxEvents
    /\ events' = events + 1
    /\ SidebarVisible' = ~SidebarVisible
    /\ IF SidebarVisible'
       THEN /\ SidebarFocused' = TRUE
            /\ SidebarSelectedIndex' = FocusedWindow
       ELSE /\ SidebarFocused' = FALSE
            /\ SidebarSelectedIndex' = -1
    /\ lastOp' = "ToggleSidebar"
    /\ UNCHANGED <<Windows, Animations, CurrentWorkspace, FocusedWindow,
                   DockbarPosition, renderWidth, frameVars, clickVars, restVars>>

\* OS.CloseSidebar, render_sidebar.go:365-369
CloseSidebar ==
    /\ SidebarVisible' = FALSE
    /\ SidebarFocused' = FALSE
    /\ SidebarSelectedIndex' = -1
    /\ lastOp' = "CloseSidebar"
    /\ UNCHANGED <<Windows, Animations, CurrentWorkspace, FocusedWindow,
                   DockbarPosition, renderWidth, frameVars, events, clickVars,
                   restVars>>

\* OS.SidebarSelectNext, render_sidebar.go:313-321
SidebarSelectNext ==
    /\ SidebarSelectedIndex' =
          IF NumWin = 0 THEN SidebarSelectedIndex
          ELSE IF SidebarSelectedIndex + 1 >= NumWin THEN 0
          ELSE SidebarSelectedIndex + 1
    /\ lastOp' = "SidebarSelectNext"
    /\ UNCHANGED <<Windows, Animations, CurrentWorkspace, FocusedWindow,
                   DockbarPosition, SidebarVisible, SidebarFocused, renderWidth,
                   frameVars, events, clickVars, restVars>>

\* OS.SidebarSelectPrev, render_sidebar.go:324-332
SidebarSelectPrev ==
    /\ SidebarSelectedIndex' =
          IF NumWin = 0 THEN SidebarSelectedIndex
          ELSE IF SidebarSelectedIndex - 1 < 0 THEN NumWin - 1
          ELSE SidebarSelectedIndex - 1
    /\ lastOp' = "SidebarSelectPrev"
    /\ UNCHANGED <<Windows, Animations, CurrentWorkspace, FocusedWindow,
                   DockbarPosition, SidebarVisible, SidebarFocused, renderWidth,
                   frameVars, events, clickVars, restVars>>

\* render_sidebar.go:336-338: the guard of SidebarConfirmSelection
SelectionInRange ==
    ~(SidebarSelectedIndex < 0 \/ SidebarSelectedIndex >= NumWin)

\* The end of the confirmation without the guard before it.
SidebarAfterConfirmUnguarded ==
    [Visible |-> FALSE, Focused |-> FALSE, Mode |-> "TerminalMode"]

\* render_sidebar.go:336-338, 359-361: the sidebar fields and the mode after
\* SidebarConfirmSelection
SidebarAfterConfirm ==
    IF SelectionInRange
    THEN [Visible |-> FALSE, Focused |-> FALSE, Mode |-> "TerminalMode"]
    ELSE [Visible |-> SidebarVisible, Focused |-> SidebarFocused, Mode |-> Mode]

\* m.RestoreWindow(i): window i is no longer minimized and is drawn again.
RestoreWindow(ws, i) ==
    [ws EXCEPT ![i + 1].Minimized = FALSE, ![i + 1].Dirty = TRUE,
               ![i + 1].PositionDirty = TRUE]

\* m.TileAllWindows(): the windows of the workspace shown get their tile.
TileAllWindows(ws, current) ==
    [k \in 1 .. Len(ws) |->
        IF ws[k].Workspace = current /\ ~ws[k].Minimized
        THEN [ws[k] EXCEPT !.X = 0, !.Y = TopMargin, !.PositionDirty = TRUE]
        ELSE ws[k]]

\* OS.SidebarConfirmSelection, render_sidebar.go:335-362; autoTiling is
\* m.AutoTiling.
SidebarConfirmSelection(autoTiling) ==
    /\ lastOp' = "SidebarConfirmSelection"
    /\ SidebarVisible' = SidebarAfterConfirm.Visible
    /\ SidebarFocused' = SidebarAfterConfirm.Focused
    /\ Mode' = SidebarAfterConfirm.Mode
    /\ IF SelectionInRange
       THEN LET selectedWindow == Win(SidebarSelectedIndex)
                restored == RestoreWindow(Windows, SidebarSelectedIndex)
            IN  /\ CurrentWorkspace' = selectedWindow.Workspace
                /\ Windows' = IF ~selectedWindow.Minimized THEN Windows
                              ELSE IF autoTiling
                                   THEN TileAllWindows(restored, selectedWindow.Workspace)
                                   ELSE restored
                /\ FocusedWindow' = SidebarSelectedIndex
       ELSE UNCHANGED <<Windows, CurrentWorkspace, FocusedWindow>>
    /\ UNCHANGED <<Animations, DockbarPosition, SidebarSelectedIndex, renderWidth,
                   frameVars, events, clickVars, sidebarWidth, gfxVars>>

\* ------------------------------------------- collaborators of the compositor
\* What the window manager, the terminal emulators and the animation driver
\* do to the state GetCanvas reads.
Event(op) ==
    /\ events < MaxEvents
    /\ events' = events + 1
    /\ lastOp' = op

\* A window is moved: its geometry changes and PositionDirty is set.
MoveWindow(i, pos) ==
    /\ Event("MoveWindow")
    /\ <<Win(i).X, Win(i).Y>> # pos
    /\ Windows' = [Windows EXCEPT ![i + 1].X = pos[1], ![i + 1].Y = pos[2],
                                  ![i + 1].PositionDirty = TRUE]
    /\ UNCHANGED <<Animations, CurrentWorkspace, FocusedWindow, DockbarPosition,
                   sidebarVars, renderWidth, frameVars, clickVars, restVars>>

\* Only the Z of a window changes; the change may set Dirty, PositionDirty or
\* neither.
SetWindowZ(i, z, mark) ==
    /\ Event("SetWindowZ")
    /\ Win(i).Z # z
    /\ Windows' = [Windows EXCEPT
                     ![i + 1].Z = z,
                     ![i + 1].Dirty = (@ \/ mark = "Dirty"),
                     ![i + 1].PositionDirty = (@ \/ mark = "PositionDirty")]
    /\ UNCHANGED <<Animations, CurrentWorkspace, FocusedWindow, DockbarPosition,
                   sidebarVars, renderWidth, frameVars, clickVars, restVars>>

\* The terminal of a window produced output.
TerminalOutput(i) ==
    /\ Event("TerminalOutput")
    /\ ~Win(i).ContentDirty
    /\ Windows' = [Windows EXCEPT ![i + 1].ContentDirty = TRUE]
    /\ UNCHANGED <<Animations, CurrentWorkspace, FocusedWindow, DockbarPosition,
                   sidebarVars, renderWidth, frameVars, clickVars, restVars>>

\* A drag or resize of a window starts or ends.
SetManipulated(i) ==
    /\ Event("SetManipulated")
    /\ Windows' = [Windows EXCEPT ![i + 1].IsBeingManipulated = ~@]
    /\ UNCHANGED <<Animations, CurrentWorkspace, FocusedWindow, DockbarPosition,
                   sidebarVars, renderWidth, frameVars, clickVars, restVars>>

\* A window is minimized or restored.
SetMinimized(i) ==
    /\ Event("SetMinimized")
    /\ Windows' = [Windows EXCEPT ![i + 1].Minimized = ~@]
    /\ UNCHANGED <<Animations, CurrentWorkspace, FocusedWindow, DockbarPosition,
                   sidebarVars, renderWidth, frameVars, clickVars, restVars>>

\* The focus moves to window i, or to no window (-1).
SetFocus(i) ==
    /\ Event("SetFocus")
    /\ FocusedWindow # i
    /\ FocusedWindow' = i
    /\ UNCHANGED <<Windows, Animations, CurrentWorkspace, DockbarPosition,
                   sidebarVars, renderWidth, frameVars, clickVars, restVars>>

\* The active workspace changes.
SwitchWorkspace(ws) ==
    /\ Event("SwitchWorkspace")
    /\ CurrentWorkspace # ws
    /\ CurrentWorkspace' = ws
    /\ UNCHANGED <<Windows, Animations, FocusedWindow, DockbarPosition,
                   sidebarVars, renderWidth, frameVars, clickVars, restVars>>

\* An animation of window i starts.
StartAnimation(i) ==
    /\ Event("StartAnimation")
    /\ [Window |-> Win(i).ID, Complete |-> FALSE] \notin Animations
    /\ Animations' = Animations \cup {[Window |-> Win(i).ID, Complete |-> FALSE]}
    /\ UNCHANGED <<Windows, CurrentWorkspace, FocusedWindow, DockbarPosition,
                   sidebarVars, renderWidth, frameVars, clickVars, restVars>>

\* An animation reaches its end: Complete is set.
CompleteAnimation(anim) ==
    /\ Event("CompleteAnimation")
    /\ anim \in Animations /\ ~anim.Complete
    /\ Animations' = (Animations \ {anim}) \cup {[anim EXCEPT !.Complete = TRUE]}
    /\ UNCHANGED <<Windows, CurrentWorkspace, FocusedWindow, DockbarPosition,
                   sidebarVars, renderWidth, frameVars, clickVars, restVars>>

\* ======================================================================
\* Graphics passthrough, render.go:171-268
\* ======================================================================
\* The callback's "no info": the map has no entry, the lookup returns nil.
NilInfo == [Visible |-> FALSE]

\* render.go:182-199: the WindowPositionInfo the Kitty callback builds for w
KittyInfo(w) ==
    [WindowX |-> w.X, WindowY |-> w.Y,
     ContentOffsetX |-> 1, ContentOffsetY |-> 1,
     Width |-> w.Width, Height |-> w.Height,
     Visible |-> TRUE,
     ScrollbackLen |-> IF w.Terminal.present THEN w.Terminal.scrollback ELSE 0,
     ScrollOffset |-> w.ScrollbackOffset,
     IsBeingManipulated |-> w.IsBeingManipulated,
     WindowZ |-> w.Z,
     IsAltScreen |-> w.IsAltScreen]

\* render.go:231-248: the WindowPositionInfo the Sixel callback builds for w
SixelInfo(w) ==
    [WindowX |-> w.X, WindowY |-> w.Y,
     ContentOffsetX |-> 1, ContentOffsetY |-> 1,
     Width |-> w.Width, Height |-> w.Height,
     Visible |-> TRUE,
     ScrollbackLen |-> IF w.Terminal.present THEN w.Terminal.scrollback ELSE 0,
     ScrollOffset |-> w.ScrollbackOffset,
     IsBeingManipulated |-> w.IsBeingManipulated,
     WindowZ |-> w.Z,
     IsAltScreen |-> w.IsAltScreen]

\* render.go:178-203: the batch callback. The loop writes result[w.ID] for
\* every window of the current workspace that is not minimized; a later
\* window with the same ID overwrites an earlier one.
KittyGeometry ==
    LET shown == {i \in Indices : Win(i).Workspace = CurrentWorkspace /\ ~Win(i).Minimized}
        last(id) == CHOOSE i \in shown :
                       /\ Win(i).ID = id
                       /\ \A j \in shown : Win(j).ID = id => j <= i
    IN  [id \in {Win(i).ID : i \in shown} |-> KittyInfo(Win(last(id)))]

\* The lookup that takes a minimized window for a visible one.
SixelLookupIgnoringMinimized(windowID) ==
    LET hits == {i \in Indices : /\ Win(i).ID = windowID
                                 /\ Win(i).Workspace = CurrentWorkspace}
    IN  IF hits = {} THEN NilInfo
        ELSE SixelInfo(Win(CHOOSE i \in hits : \A j \in hits : i <= j))

\* render.go:228-252: the per-placement callback. The loop returns at the
\* first window with this ID that is in the current workspace and not
\* minimized, and nil after the loop.
SixelLookup(windowID) ==
    LET hits == {i \in Indices : /\ Win(i).ID = windowID
                                 /\ Win(i).Workspace = CurrentWorkspace
                                 /\ ~Win(i).Minimized}
    IN  IF hits = {} THEN NilInfo
        ELSE SixelInfo(Win(CHOOSE i \in hits : \A j \in hits : i <= j))

\* What the protocol layer is told about the placement of windowID: the
\* Kitty layer looks the ID up in the batch map, the Sixel layer calls the
\* callback with it.
Lookup(p, windowID) ==
    IF p = "kitty"
    THEN IF windowID \in DOMAIN KittyGeometry THEN KittyGeometry[windowID] ELSE NilInfo
    ELSE SixelLookup(windowID)

\* One buffered escape sequence of protocol p, about the placement of window
\* id, produced after the events-th event.
Cmd(p, kind, id) == [proto |-> p, kind |-> kind, id |-> id, at |-> events]

\* The protocol layer's diff of one placement against the info it is given:
\* hidden when the window left the snapshot, revealed when it came back,
\* moved when its anchor changed.
PlacementCommands(p, pl, id) ==
    LET info == Lookup(p, id)
    IN  IF info = NilInfo
        THEN IF pl[id].visible THEN <<Cmd(p, "hide", id)>> ELSE <<>>
        ELSE IF ~pl[id].visible THEN <<Cmd(p, "show", id)>>
        ELSE IF <<pl[id].X, pl[id].Y>>
                  # <<info.WindowX + info.ContentOffsetX, info.WindowY + info.ContentOffsetY>>
             THEN <<Cmd(p, "move", id)>>
        ELSE <<>>

PlacementAfterRefresh(p, pl, id) ==
    LET info == Lookup(p, id)
    IN  IF info = NilInfo THEN [pl[id] EXCEPT !.visible = FALSE]
        ELSE [visible |-> TRUE,
              X |-> info.WindowX + info.ContentOffsetX,
              Y |-> info.WindowY + info.ContentOffsetY]

RECURSIVE RefreshCommands(_, _, _)
RefreshCommands(p, pl, ids) ==
    IF ids = <<>> THEN <<>>
    ELSE PlacementCommands(p, pl, Head(ids)) \o RefreshCommands(p, pl, Tail(ids))

\* passthrough.RefreshAllPlacements: every placement is diffed against the
\* current geometry and the escape sequences go to the pending buffer.
RefreshAllPlacements(p, pt) ==
    [pt EXCEPT !.placements = [id \in DOMAIN pt.placements |->
                                  PlacementAfterRefresh(p, pt.placements, id)],
               !.pending = pt.pending
                           \o RefreshCommands(p, pt.placements,
                                              SortedSeq(DOMAIN pt.placements))]

\* HasPlacements() (render.go:177), PlacementCount() > 0 (render.go:227)
HasPlacements(pt) == DOMAIN pt.placements # {}

\* render.go:177-204, 227-253: the passthrough after the conditional refresh
AfterRefresh(p) ==
    IF HasPlacements(passthrough[p])
    THEN RefreshAllPlacements(p, passthrough[p])
    ELSE passthrough[p]

\* The flush that happens only on frames that refreshed.
FlushPendingOnlyAfterRefresh(p) ==
    IF HasPlacements(passthrough[p]) THEN AfterRefresh(p).pending ELSE <<>>

\* render.go:207, 256: data := FlushPending(), the whole pending buffer
FlushPending(p) == AfterRefresh(p).pending

\* The device write that opens the device again after a failure.
WriteToTtyRetrying(data, openOk) ==
    IF Len(data) = 0 THEN [opens |-> 0, failed |-> FALSE, written |-> <<>>]
    ELSE IF ~openOk THEN [opens |-> 2, failed |-> TRUE, written |-> <<data>>]
    ELSE [opens |-> 1, failed |-> FALSE, written |-> <<data>>]

\* render.go:208-217, 257-266: nothing is opened for an empty blob; the
\* device is opened once; on an error nothing is written; otherwise the blob
\* is written in one Write.
WriteToTty(data, openOk) ==
    IF Len(data) = 0 THEN [opens |-> 0, failed |-> FALSE, written |-> <<>>]
    ELSE IF ~openOk THEN [opens |-> 1, failed |-> TRUE, written |-> <<>>]
    ELSE [opens |-> 1, failed |-> FALSE, written |-> <<data>>]

\* The set of the elements of a sequence
Range(seq) == {seq[k] : k \in DOMAIN seq}

\* OS.GetKittyGraphicsCmd / OS.GetSixelGraphicsCmd for protocol p; openOk says
\* whether os.OpenFile("/dev/tty") succeeds if it is called.
GetGraphicsCmd(p, op, openOk) ==
    /\ lastOp' = op
    /\ IF ~passthrough[p].present
       THEN /\ ttyLog' = [ttyLog EXCEPT !.opens = 0, !.failed = FALSE, !.written = <<>>]
            /\ gfxSeen' = <<>>
            /\ UNCHANGED passthrough
       ELSE LET data == FlushPending(p)
                io == WriteToTty(data, openOk)
            IN  /\ passthrough' = [passthrough EXCEPT
                                     ![p] = [AfterRefresh(p) EXCEPT !.pending = <<>>]]
                /\ gfxSeen' = IF HasPlacements(passthrough[p])
                              THEN [id \in DOMAIN passthrough[p].placements |-> Lookup(p, id)]
                              ELSE <<>>
                /\ ttyLog' = [opens |-> io.opens,
                              failed |-> io.failed,
                              written |-> io.written,
                              dropped |-> ttyLog.dropped
                                          \cup (IF io.failed THEN Range(data) ELSE {})]
    /\ UNCHANGED <<Windows, Animations, CurrentWorkspace, FocusedWindow,
                   DockbarPosition, sidebarVars, renderWidth, frameVars, events,
                   clickVars, Mode, sidebarWidth>>

\* OS.GetKittyGraphicsCmd, render.go:171-219
GetKittyGraphicsCmd(openOk) == GetGraphicsCmd("kitty", "GetKittyGraphicsCmd", openOk)

\* OS.GetSixelGraphicsCmd, render.go:221-268
GetSixelGraphicsCmd(openOk) == GetGraphicsCmd("sixel", "GetSixelGraphicsCmd", openOk)

\* The terminal of window i emits an image: the protocol layer registers a
\* placement at the window's content origin and buffers the image.
AddPlacement(p, i) ==
    /\ Event("AddPlacement")
    /\ passthrough[p].present
    /\ Win(i).ID \notin DOMAIN passthrough[p].placements
    /\ passthrough' =
          [passthrough EXCEPT
             ![p].placements =
                 [id \in DOMAIN @ \cup {Win(i).ID} |->
                     IF id = Win(i).ID
                     THEN [visible |-> TRUE, X |-> Win(i).X + 1, Y |-> Win(i).Y + 1]
                     ELSE @[id]],
             ![p].pending = Append(@, [proto |-> p, kind |-> "place",
                                       id |-> Win(i).ID, at |-> events + 1])]
    /\ UNCHANGED <<Windows, Animations, CurrentWorkspace, FocusedWindow,
                   DockbarPosition, sidebarVars, renderWidth, frameVars,
                   clickVars, Mode, sidebarWidth, ttyLog, gfxSeen>>

\* The windows without window i
RemoveAt(seq, i) ==
    [k \in 1 .. (Len(seq) - 1) |-> IF k <= i THEN seq[k] ELSE seq[k + 1]]

\* Window i closes: it leaves the list, and each protocol layer drops its
\* placement and buffers the command that removes the image.
CloseWindow(i) ==
    /\ Event("CloseWindow")
    /\ Windows' = RemoveAt(Windows, i)
    /\ FocusedWindow' = IF NumWin = 1 THEN -1 ELSE 0
    /\ passthrough' =
          [p \in Protocols |->
             IF Win(i).ID \in DOMAIN passthrough[p].placements
             THEN [passthrough[p] EXCEPT
                     !.placements = [id \in DOMAIN @ \ {Win(i).ID} |-> @[id]],
                     !.pending = Append(@, [proto |-> p, kind |-> "delete",
                                            id |-> Win(i).ID, at |-> events + 1])]
             ELSE passthrough[p]]
    /\ UNCHANGED <<Animations, CurrentWorkspace, DockbarPosition, sidebarVars,
                   renderWidth, frameVars, clickVars, Mode, sidebarWidth,
                   ttyLog, gfxSeen>>

\* ------------------------------------------------------------ specification
NewWindow(id, pos, ws) ==
    [ID |-> id, X |-> pos[1], Y |-> pos[2], Width |-> WinWidth, Height |-> WinHeight,
     Z |-> id, Workspace |-> ws, Minimized |-> FALSE, IsBeingManipulated |-> FALSE,
     Dirty |-> TRUE, ContentDirty |-> TRUE, PositionDirty |-> TRUE,
     CachedLayer |-> Nil,
     Terminal |-> NoTerminal, ScrollbackOffset |-> 0, IsAltScreen |-> FALSE]

InitCommon ==
    /\ Animations = {}
    /\ CurrentWorkspace = 1
    /\ FocusedWindow = 0
    /\ SidebarVisible = FALSE
    /\ SidebarFocused = FALSE
    /\ SidebarSelectedIndex = -1
    /\ renderWidth = ViewportWidth
    /\ layers = <<>>
    /\ lastRender = FALSE
    /\ frame = 0
    /\ events = 0
    /\ clickX = 0 /\ clickY = 0 /\ clickResult = -1
    /\ Mode = "WindowManagementMode"
    /\ sidebarWidth = 0
    /\ poolTrace = <<>>
    /\ passthrough = [p \in Protocols |-> NoPassthrough]
    /\ ttyLog = NoTty
    /\ gfxSeen = <<>>
    /\ lastOp = "init"

\* The windows after construction: window k at ps[k] in workspace wss[k];
\* the first window is in the active workspace.
InitWindows(ps, wss) ==
    /\ wss[1] = 1
    /\ Windows = [k \in 1 .. NumWindows |-> NewWindow(k, ps[k], wss[k])]
    /\ decisions = [k \in 1 .. NumWindows |-> "none"]

\* The window loop of the compositor: the windows start anywhere, the dock is
\* hidden and the sidebar stays closed, so a frame holds window layers only.
Init ==
    /\ InitCommon
    /\ DockbarPosition = "hidden"
    /\ \E ps \in [1 .. NumWindows -> Positions], wss \in [1 .. NumWindows -> Workspaces] :
          InitWindows(ps, wss)

\* OS.View, render.go:155-169: the frame of the running program.
View == GetCanvas(TRUE, 0)

Collaborators ==
    \/ \E i \in Indices, pos \in Positions : MoveWindow(i, pos)
    \/ \E i \in Indices, z \in ZValues, mark \in {"none", "Dirty", "PositionDirty"} :
          SetWindowZ(i, z, mark)
    \/ \E i \in Indices : TerminalOutput(i)
    \/ \E i \in Indices : SetManipulated(i)
    \/ \E i \in Indices : SetMinimized(i)
    \/ \E i \in -1 .. (NumWin - 1) : SetFocus(i)
    \/ \E ws \in Workspaces : SwitchWorkspace(ws)
    \/ \E i \in Indices : StartAnimation(i)
    \/ \E anim \in Animations : CompleteAnimation(anim)

Next ==
    \/ View
    \/ Collaborators

Spec == Init /\ [][Next]_vars

\* The whole frame: the windows start at the first two positions, the dock is
\* anywhere, the sidebar opens and closes, overlays come and go, GetCanvas is
\* called with either value of render, and the events are those that decide
\* whether a window is skipped.
InitChrome ==
    /\ InitCommon
    /\ DockbarPosition \in DockPositions
    /\ \E wss \in [1 .. NumWindows -> Workspaces] :
          InitWindows([k \in 1 .. NumWindows |-> IF k = 1 THEN <<0, 1>> ELSE <<-2, 1>>], wss)

NextChrome ==
    \/ \E render \in BOOLEAN, n \in 0 .. MaxOverlays : GetCanvas(render, n)
    \/ ToggleSidebar
    \/ \E i \in Indices, pos \in Positions : MoveWindow(i, pos)
    \/ \E i \in Indices : SetMinimized(i)
    \/ \E ws \in Workspaces : SwitchWorkspace(ws)
    \/ \E i \in Indices : StartAnimation(i)

SpecChrome == InitChrome /\ [][NextChrome]_vars

\* The sidebar: any list of up to MaxSidebarWindows windows over three
\* workspaces, any dock position, a narrow and a wide screen.
SidebarWorkspaces == {1, 2, 3}
RenderWidths == {40, 150}
ClickRows == 0 .. (DockHeight + TopMargin + 4 + 2 * MaxSidebarWindows)
ClickColumns == {GetSidebarWidth - 1, GetSidebarWidth}

InitSidebar ==
    /\ Animations = {}
    /\ CurrentWorkspace = 1
    /\ DockbarPosition \in DockPositions
    /\ SidebarVisible = FALSE
    /\ SidebarFocused = FALSE
    /\ SidebarSelectedIndex = -1
    /\ renderWidth \in RenderWidths
    /\ \E n \in 0 .. MaxSidebarWindows : \E wss \in [1 .. n -> SidebarWorkspaces] :
          /\ Windows = [k \in 1 .. n |-> NewWindow(k, <<0, 1>>, wss[k])]
          /\ decisions = [k \in 1 .. n |-> "none"]
          /\ FocusedWindow = IF n = 0 THEN -1 ELSE 0
    /\ layers = <<>>
    /\ lastRender = FALSE
    /\ frame = 0
    /\ events = 0
    /\ clickX = 0 /\ clickY = 0 /\ clickResult = -1
    /\ Mode = "WindowManagementMode"
    /\ sidebarWidth = 0
    /\ poolTrace = <<>>
    /\ passthrough = [p \in Protocols |-> NoPassthrough]
    /\ ttyLog = NoTty
    /\ gfxSeen = <<>>
    /\ lastOp = "init"

NextSidebar ==
    \/ \E x \in ClickColumns, y \in ClickRows : FindSidebarItemClicked(x, y)
    \/ ToggleSidebar

SpecSidebar == InitSidebar /\ [][NextSidebar]_vars

\* The graphics passthrough: each protocol is configured or not, the windows
\* differ in every field of the geometry snapshot, images appear, windows
\* move, are minimized and close, the workspace changes, and every call may
\* find the terminal device unavailable.
GfxWindow(k, ws) ==
    [NewWindow(k, IF k = 1 THEN <<0, 1>> ELSE <<-2, 1>>, ws) EXCEPT
        !.Terminal = IF k = 1 THEN [present |-> TRUE, scrollback |-> 2] ELSE NoTerminal,
        !.ScrollbackOffset = k - 1,
        !.IsAltScreen = (k # 1)]

\* Where a window is dragged to
GfxPositions == {<<0, 1>>, <<-2, 1>>}

InitGfx ==
    /\ Animations = {}
    /\ CurrentWorkspace = 1
    /\ FocusedWindow = 0
    /\ DockbarPosition = "hidden"
    /\ SidebarVisible = FALSE
    /\ SidebarFocused = FALSE
    /\ SidebarSelectedIndex = -1
    /\ renderWidth = ViewportWidth
    /\ \E wss \in [1 .. NumWindows -> Workspaces] :
          Windows = [k \in 1 .. NumWindows |-> GfxWindow(k, wss[k])]
    /\ decisions = <<>>
    /\ layers = <<>>
    /\ lastRender = FALSE
    /\ frame = 0
    /\ events = 0
    /\ clickX = 0 /\ clickY = 0 /\ clickResult = -1
    /\ Mode = "WindowManagementMode"
    /\ sidebarWidth = 0
    /\ poolTrace = <<>>
    /\ \E present \in [Protocols -> BOOLEAN] :
          passthrough = [p \in Protocols |-> [NoPassthrough EXCEPT !.present = present[p]]]
    /\ ttyLog = NoTty
    /\ gfxSeen = <<>>
    /\ lastOp = "init"

NextGfx ==
    \/ \E openOk \in BOOLEAN : GetKittyGraphicsCmd(openOk)
    \/ \E openOk \in BOOLEAN : GetSixelGraphicsCmd(openOk)
    \/ \E p \in Protocols, i \in Indices : AddPlacement(p, i)
    \/ \E i \in Indices : CloseWindow(i)
    \/ \E i \in Indices, pos \in GfxPositions : MoveWindow(i, pos)
    \/ \E i \in Indices : SetMinimized(i)
    \/ \E i \in Indices : SetManipulated(i)
    \/ \E ws \in Workspaces : SwitchWorkspace(ws)

SpecGfx == InitGfx /\ [][NextGfx]_vars

\* The sidebar width over all render widths: the terminal takes any width and
\* the width of the sidebar is computed for it.
SetRenderWidth(w) ==
    /\ renderWidth' = w
    /\ sidebarWidth' = GetSidebarWidth'
    /\ lastOp' = "GetSidebarWidth"
    /\ UNCHANGED <<Windows, Animations, CurrentWorkspace, FocusedWindow,
                   DockbarPosition, sidebarVars, frameVars, events, clickVars,
                   Mode, gfxVars>>

InitWidth ==
    /\ InitCommon
    /\ DockbarPosition = "hidden"
    /\ InitWindows([k \in 1 .. NumWindows |-> <<0, 1>>], [k \in 1 .. NumWindows |-> 1])

NextWidth == \E w \in 0 .. MaxRenderWidth : SetRenderWidth(w)

SpecWidth == InitWidth /\ [][NextWidth]_vars

\* A window opens in workspace ws and takes the focus.
AddWindow(ws) ==
    /\ Event("AddWindow")
    /\ NumWin < MaxSidebarWindows
    /\ Windows' = Append(Windows, NewWindow(MaxSidebarWindows + events + 1, <<0, 1>>, ws))
    /\ FocusedWindow' = NumWin
    /\ UNCHANGED <<Animations, CurrentWorkspace, DockbarPosition, sidebarVars,
                   renderWidth, frameVars, clickVars, restVars>>

\* The keys of the sidebar: it opens and closes, the selection moves and is
\* confirmed, while windows open and close. The windows start in either
\* workspace, minimized or not.
InitSidebarKeys ==
    /\ InitCommon
    /\ DockbarPosition = "hidden"
    /\ decisions = <<>>
    /\ \E n \in 1 .. MaxSidebarWindows :
       \E wss \in [1 .. n -> Workspaces], mins \in [1 .. n -> BOOLEAN] :
          Windows = [k \in 1 .. n |->
                       [NewWindow(k, <<0, 1>>, wss[k]) EXCEPT !.Minimized = mins[k]]]

NextSidebarKeys ==
    \/ ToggleSidebar
    \/ CloseSidebar
    \/ SidebarSelectNext
    \/ SidebarSelectPrev
    \/ \E autoTiling \in BOOLEAN : SidebarConfirmSelection(autoTiling)
    \/ \E ws \in Workspaces : AddWindow(ws)
    \/ \E i \in Indices : CloseWindow(i)

SpecSidebarKeys == InitSidebarKeys /\ [][NextSidebarKeys]_vars

\* ======================================================================
\* Properties of the compositor
\* ======================================================================
\* The vocabulary of the properties, stated on the window list itself.
FrameStep == frame' = frame + 1
AfterFrame == lastOp = "GetCanvas"

HasIncompleteAnimation(i) ==
    \E a \in Animations : a.Window = Win(i).ID /\ a.Complete = FALSE

InActiveWorkspace(i) == Win(i).Workspace = CurrentWorkspace

\* The bounding box of window i lies outside the viewport expanded by m cells.
OutsideBy(i, m) ==
    \/ Win(i).X + Win(i).Width < -m
    \/ Win(i).X > renderWidth + m
    \/ Win(i).Y + Win(i).Height < -m
    \/ Win(i).Y > ViewportHeight + TopMargin + m

FullyOutside(i) == OutsideBy(i, IF HasIncompleteAnimation(i) THEN 20 ELSE 5)

FullyInside(i) ==
    /\ Win(i).X >= 0 /\ Win(i).X + Win(i).Width <= renderWidth
    /\ Win(i).Y >= TopMargin /\ Win(i).Y + Win(i).Height <= ViewportHeight + TopMargin

\* A visible window of the active workspace: one no test of the frame skips.
Shown(i) ==
    /\ InActiveWorkspace(i)
    /\ ~(Win(i).Minimized /\ ~HasIncompleteAnimation(i))
    /\ ~FullyOutside(i)

AnyDirty(w) == w.Dirty \/ w.ContentDirty \/ w.PositionDirty
FlagsOf(w) == <<w.Dirty, w.ContentDirty, w.PositionDirty>>

\* The layers of the sequence ls that belong to window i.
EmittedFor(i, ls) ==
    {ls[k] : k \in {j \in DOMAIN ls : ls[j].kind = "window" /\ ls[j].ID = Win(i).ID}}

\* Layer l carries the geometry a layer built now for window i would carry.
ReflectsGeometry(l, i) ==
    /\ l.X = ClipOrigin(Win(i).X)
    /\ l.Y = ClipOrigin(Win(i).Y)
    /\ l.Z = (IF HasIncompleteAnimation(i) THEN ZIndexAnimating ELSE Win(i).Z)

\* C1: in any frame, a window of the active workspace whose bounding box is
\* fully outside the viewport expanded by the margin (5, or 20 with an
\* incomplete animation) contributes no layer, and its cached layer and its
\* three dirty flags are the same after the frame as before it.
C1_OutsideWindowUntouched ==
    [][FrameStep =>
         \A i \in Indices :
            (InActiveWorkspace(i) /\ FullyOutside(i)) =>
               /\ EmittedFor(i, layers') = {}
               /\ Windows'[i + 1].CachedLayer = Win(i).CachedLayer
               /\ FlagsOf(Windows'[i + 1]) = FlagsOf(Win(i))]_vars

\* A frame has skipped a window that was moved outside the margin after a
\* layer was cached for it: the cache and the PositionDirty flag are kept.
C1_Witness ==
    /\ AfterFrame
    /\ \E i \in Indices :
          /\ InActiveWorkspace(i) /\ ~Win(i).Minimized /\ FullyOutside(i)
          /\ Win(i).CachedLayer # Nil /\ Win(i).PositionDirty
          /\ EmittedFor(i, layers) = {}

\* C2: a cached layer whose recorded (X,Y,Z) differs from the window's (X,Y,Z)
\* needs a redraw even with all three dirty flags clear: for a visible window
\* of the active workspace that is focused or fully inside the viewport, the
\* frame emits a newly built layer with the current geometry and replaces the
\* cache by it.
C2_MismatchForcesRedraw ==
    [][FrameStep =>
         \A i \in Indices :
            LET w == Win(i)
                c == Win(i).CachedLayer
            IN  ( /\ Shown(i)
                  /\ c # Nil
                  /\ <<c.X, c.Y, c.Z>> # <<w.X, w.Y, w.Z>>
                  /\ (FocusedWindow = i \/ FullyInside(i)) ) =>
                \E l \in EmittedFor(i, layers') :
                   /\ l.serial = frame'
                   /\ ReflectsGeometry(l, i)
                   /\ Windows'[i + 1].CachedLayer = l]_vars

\* C3: a visible window of the active workspace with the three flags clear and
\* a cached layer recorded at the current (X,Y,Z) contributes exactly that
\* cached layer, built in an earlier frame, and keeps its cache and its flags.
C3_CleanCacheReused ==
    [][FrameStep =>
         \A i \in Indices :
            LET w == Win(i)
                c == Win(i).CachedLayer
            IN  ( /\ Shown(i)
                  /\ ~AnyDirty(w)
                  /\ c # Nil
                  /\ <<c.X, c.Y, c.Z>> = <<w.X, w.Y, w.Z>> ) =>
                /\ EmittedFor(i, layers') = {c}
                /\ c.serial < frame'
                /\ Windows'[i + 1] = w]_vars

\* A second or later frame has emitted the layer an earlier frame cached for
\* a clean window whose geometry is the recorded one.
C3_Witness ==
    /\ AfterFrame
    /\ \E i \in Indices :
          LET w == Win(i)
              c == Win(i).CachedLayer
          IN  /\ Shown(i) /\ ~AnyDirty(w) /\ c # Nil
              /\ <<c.X, c.Y, c.Z>> = <<w.X, w.Y, w.Z>>
              /\ c.serial < frame
              /\ EmittedFor(i, layers) = {c}

\* C4: a window whose Z differs from the Z recorded in its cached layer, that
\* is not focused, is visible but not fully inside the viewport, is not
\* content-dirty and is not being manipulated, contributes its existing
\* cached layer and keeps it, whether or not Dirty or PositionDirty is set.
C4_ZChangeReusesCache ==
    [][FrameStep =>
         \A i \in Indices :
            LET w == Win(i)
                c == Win(i).CachedLayer
            IN  ( /\ Shown(i)
                  /\ c # Nil
                  /\ c.Z # w.Z
                  /\ FocusedWindow # i
                  /\ ~FullyInside(i)
                  /\ ~w.ContentDirty
                  /\ ~w.IsBeingManipulated ) =>
                /\ EmittedFor(i, layers') = {c}
                /\ Windows'[i + 1].CachedLayer = c]_vars

\* A frame has emitted the cached layer of an unfocused, partly visible window
\* whose Z was changed with PositionDirty set.
C4_Witness ==
    /\ AfterFrame
    /\ \E i \in Indices :
          LET w == Win(i)
              c == Win(i).CachedLayer
          IN  /\ Shown(i) /\ c # Nil /\ c.Z # w.Z /\ c.Z # ZIndexAnimating
              /\ FocusedWindow # i /\ ~FullyInside(i)
              /\ ~w.ContentDirty /\ ~w.IsBeingManipulated
              /\ w.PositionDirty
              /\ c.serial < frame
              /\ EmittedFor(i, layers) = {c}

\* C5: a visible window of the active workspace that is focused, fully inside
\* the viewport, content-dirty or being manipulated, and that has no cached
\* layer or has a dirty flag set, is redrawn in that frame: it contributes a
\* layer built in this frame, which becomes its cache, and its three flags
\* are clear afterwards.
C5_NoSuppressionForForeground ==
    [][FrameStep =>
         \A i \in Indices :
            LET w == Win(i)
            IN  ( /\ Shown(i)
                  /\ \/ FocusedWindow = i
                     \/ FullyInside(i)
                     \/ w.ContentDirty
                     \/ w.IsBeingManipulated
                  /\ (w.CachedLayer = Nil \/ AnyDirty(w)) ) =>
                /\ \E l \in EmittedFor(i, layers') :
                      /\ l.serial = frame'
                      /\ EmittedFor(i, layers') = {l}
                      /\ Windows'[i + 1].CachedLayer = l
                /\ ~AnyDirty(Windows'[i + 1])]_vars

\* A second or later frame has redrawn an unfocused, partly visible window
\* because it is being manipulated.
C5_Witness ==
    /\ AfterFrame /\ frame >= 2
    /\ \E i \in Indices :
          LET w == Win(i)
          IN  /\ Shown(i) /\ FocusedWindow # i /\ ~FullyInside(i)
              /\ w.IsBeingManipulated
              /\ w.CachedLayer.serial = frame
              /\ ~AnyDirty(w)
              /\ EmittedFor(i, layers) = {w.CachedLayer}

\* C6: when the override suppressed the redraw of a window in one frame, the
\* layer the window contributes in the following frame carries the window's
\* current geometry.
C6_StalenessLastsOneFrame ==
    [][(FrameStep /\ AfterFrame) =>
         \A i \in Indices :
            (Shown(i) /\ decisions[i + 1] = "reuse_override") =>
               \E l \in EmittedFor(i, layers') : ReflectsGeometry(l, i)]_vars

\* C7: every layer a frame emits for a window with an incomplete animation
\* carries the elevated z-order, and a layer built in the frame for a window
\* that is not animating carries the window's own Z.
C7_AnimatingLayerElevated ==
    AfterFrame =>
       \A i \in Indices : \A l \in EmittedFor(i, layers) :
          /\ HasIncompleteAnimation(i) => l.Z = ZIndexAnimating
          /\ (l.serial = frame /\ ~HasIncompleteAnimation(i)) => l.Z = Win(i).Z

\* C8: a frame emits no layer for, and changes nothing of, a window outside
\* the current workspace or minimized without an incomplete animation of its
\* own; a minimized window with an incomplete animation of its own is
\* processed: unless it is outside the margin it contributes one layer.
C8_SkipOtherWorkspaceAndMinimized ==
    [][FrameStep =>
         \A i \in Indices :
            /\ ( \/ ~InActiveWorkspace(i)
                 \/ (Win(i).Minimized /\ ~HasIncompleteAnimation(i)) ) =>
                  /\ EmittedFor(i, layers') = {}
                  /\ Windows'[i + 1] = Win(i)
            /\ ( /\ InActiveWorkspace(i)
                 /\ Win(i).Minimized
                 /\ HasIncompleteAnimation(i)
                 /\ ~OutsideBy(i, 20) ) =>
                  Cardinality(EmittedFor(i, layers')) = 1]_vars

\* A frame has processed a minimized window that is animating and skipped a
\* window of another workspace that has a cached layer.
C8_Witness ==
    /\ AfterFrame
    /\ \E i, j \in Indices :
          /\ InActiveWorkspace(i) /\ Win(i).Minimized /\ HasIncompleteAnimation(i)
          /\ EmittedFor(i, layers) # {}
          /\ ~InActiveWorkspace(j) /\ AnyDirty(Win(j))
          /\ EmittedFor(j, layers) = {}

\* The IDs of the windows from index i on that no test of the frame skips.
RECURSIVE ShownIDs(_)
ShownIDs(i) ==
    IF i >= NumWin THEN <<>>
    ELSE (IF Shown(i) THEN <<Win(i).ID>> ELSE <<>>) \o ShownIDs(i + 1)

IsWindowLayer(l) == l.kind = "window"
IsChromeLayer(l) == l.kind # "window"

\* C9: the layers of a frame are one layer per window not skipped, in list
\* order, then the overlays, then the dock layer iff the dock is not hidden,
\* then the sidebar layer iff the sidebar is visible; the chrome is there only
\* with render = true, and no window layer follows a chrome layer.
C9_LayerOrder ==
    AfterFrame =>
       LET winPart == SelectSeq(layers, IsWindowLayer)
           chromePart == SelectSeq(layers, IsChromeLayer)
           nOverlays == Cardinality({k \in DOMAIN layers : layers[k].kind = "overlay"})
       IN  /\ layers = winPart \o chromePart
           /\ [k \in DOMAIN winPart |-> winPart[k].ID] = ShownIDs(0)
           /\ [k \in DOMAIN chromePart |-> chromePart[k].kind] =
                 [k \in 1 .. nOverlays |-> "overlay"]
                 \o (IF lastRender /\ DockbarPosition # "hidden" THEN <<"dock">> ELSE <<>>)
                 \o (IF lastRender /\ SidebarVisible THEN <<"sidebar">> ELSE <<>>)
           /\ ~lastRender => chromePart = <<>>

\* A frame with render = true has emitted a window layer, an overlay, the dock
\* and the sidebar, and has skipped a window.
C9_Witness ==
    /\ AfterFrame /\ lastRender
    /\ DockbarPosition # "hidden" /\ SidebarVisible
    /\ \E k \in DOMAIN layers : layers[k].kind = "overlay"
    /\ \E i, j \in Indices : Shown(i) /\ ~Shown(j)
    /\ layers[Len(layers)].kind = "sidebar"

\* What GetCanvas did with window i in the last frame: it appended a layer.
Contributed(i) == decisions[i + 1] \in {"reuse_clean", "reuse_override", "redraw"}

\* C18: no frame appends a nil layer. A window without a cached layer that
\* passes the skip and visibility tests is redrawn, so both reuse paths find
\* a cached layer; after the frame every window that contributed a layer has
\* a cached layer, and it is the layer the window contributed.
C18_NoNilLayer ==
    [][FrameStep =>
          /\ \A k \in DOMAIN layers' : layers'[k] # Nil /\ layers'[k].kind # "nil"
          /\ \A i \in Indices :
                /\ (Win(i).CachedLayer = Nil
                      /\ decisions'[i + 1] \notin {"skip_workspace", "skip_minimized",
                                                    "skip_invisible"})
                      => decisions'[i + 1] = "redraw"
                /\ decisions'[i + 1] \in {"reuse_clean", "reuse_override"}
                      => /\ Win(i).CachedLayer # Nil
                         /\ Windows'[i + 1].CachedLayer = Win(i).CachedLayer
                /\ decisions'[i + 1] \in {"reuse_clean", "reuse_override", "redraw"}
                      => /\ Windows'[i + 1].CachedLayer # Nil
                         /\ EmittedFor(i, layers') = {Windows'[i + 1].CachedLayer}
                         /\ Cardinality({k \in DOMAIN layers' :
                                           layers'[k] = Windows'[i + 1].CachedLayer}) = 1]_vars

\* A frame has reused the older layer of one window through the override
\* and redrawn another window, whose cached layer is the one just built.
C18_Witness ==
    /\ AfterFrame
    /\ \E i, j \in Indices :
          /\ decisions[i + 1] = "reuse_override"
          /\ Win(i).CachedLayer \in EmittedFor(i, layers)
          /\ Win(i).CachedLayer.serial < frame
          /\ decisions[j + 1] = "redraw"
          /\ Win(j).CachedLayer.serial = frame

\* C20: the layer buffer taken from the pool at the start of GetCanvas is
\* returned exactly once per frame, on every path through the function, and
\* never before the last append to it.
C20_PoolReturnedOnce ==
    [][FrameStep =>
          LET puts == {k \in DOMAIN poolTrace' : poolTrace'[k] = "PutLayerSlice"}
              gets == {k \in DOMAIN poolTrace' : poolTrace'[k] = "GetLayerSlice"}
              uses == {k \in DOMAIN poolTrace' : poolTrace'[k] \in {"append", "AddLayers"}}
          IN  /\ Cardinality(puts) = 1
              /\ gets = {1}
              /\ \A k \in puts : \A u \in uses : u < k
              /\ Cardinality({k \in uses : poolTrace'[k] = "append"}) = Len(layers')]_vars

\* A frame that skipped one window and appended the layer of the other has
\* returned the buffer after the append.
C20_Witness ==
    /\ AfterFrame
    /\ Len(layers) = 1
    /\ \E i \in Indices : ~Contributed(i)
    /\ poolTrace = <<"GetLayerSlice", "append", "AddLayers", "PutLayerSlice">>

\* ======================================================================
\* Properties of the sidebar
\* ======================================================================
AfterClick == lastOp = "FindSidebarItemClicked"

\* The items of the layout whose [StartY, EndY) holds the row y.
ItemsOnRow(y) ==
    LET items == CalculateSidebarLayout.ItemPositions
    IN  {items[k] : k \in {j \in DOMAIN items : items[j].StartY <= y /\ y < items[j].EndY}}

\* C10: FindSidebarItemClicked(x, y) returns window index i iff the sidebar is
\* visible, x is inside the sidebar width and CalculateSidebarLayout has an
\* item for i whose [StartY, EndY) holds y minus the sidebar top (the top
\* margin, or the dock height with the dock at the top); otherwise it
\* returns -1.
C10_HitTestMatchesLayout ==
    AfterClick =>
       LET top == IF DockbarPosition = "top" THEN DockHeight ELSE TopMargin
           hits == {item.WindowIndex : item \in ItemsOnRow(clickY - top)}
           inside == SidebarVisible /\ clickX < CalculateSidebarLayout.Width
       IN  /\ \A i \in Indices : (clickResult = i) <=> (inside /\ i \in hits)
           /\ clickResult \in Indices \cup {-1}
           /\ (~inside \/ hits = {}) => clickResult = -1

\* A click on the row of a window of the second workspace group, below the
\* gap, with the dock at the top, has resolved to that window.
C10_Witness ==
    /\ AfterClick
    /\ DockbarPosition = "top"
    /\ clickResult \in Indices
    /\ \E j \in Indices : Win(j).Workspace < Win(clickResult).Workspace
    /\ \E item \in ItemsOnRow(clickY - DockHeight) : item.WindowIndex = clickResult

\* The workspaces of the window list, in list order.
WorkspaceOfEach == [k \in 1 .. NumWin |-> Windows[k].Workspace]

\* The layout's item of window i.
ItemOf(i) ==
    LET items == CalculateSidebarLayout.ItemPositions
    IN  items[CHOOSE k \in DOMAIN items : items[k].WindowIndex = i]

\* C11: CalculateSidebarLayout follows the offset rule of the rendered lines.
\* Workspaces come in ascending id; each has one header row followed by one
\* row per window in list order; one blank row separates consecutive
\* workspaces and none follows the last. Every window index has exactly one
\* item, of one row, that shares its row with no other item and no header,
\* and each row of the layout is the row renderSidebar puts that line on. For
\* the windows {1:[a,b], 3:[c]} the rows after the title block are
\* 1+2+1+1+1.
C11_LayoutFollowsOffsetRule ==
    LET layout == CalculateSidebarLayout
        items == layout.ItemPositions
        headers == layout.WorkspaceY
        lines == SidebarLines
        wss == {Win(i).Workspace : i \in Indices}
        headerRow(ws) == (CHOOSE h \in headers : h[1] = ws)[2]
        startY(i) == items[CHOOSE k \in DOMAIN items : items[k].WindowIndex = i].StartY
        lastRow(ws) == headerRow(ws) + Len(WorkspaceWindows(ws))
    IN  /\ {h[1] : h \in headers} = wss
        /\ Cardinality(headers) = Cardinality(wss)
        /\ Len(items) = NumWin
        /\ \A i \in Indices :
              Cardinality({k \in DOMAIN items : items[k].WindowIndex = i}) = 1
        /\ \A k \in DOMAIN items :
              /\ items[k].EndY = items[k].StartY + 1
              /\ \A j \in DOMAIN items : j # k => items[j].StartY # items[k].StartY
              /\ \A h \in headers : h[2] # items[k].StartY
              /\ lines[items[k].StartY]
                   = Line("item", Win(items[k].WindowIndex).Workspace,
                          items[k].WindowIndex)
        /\ \A h \in headers : lines[h[2]] = Line("header", h[1], -1)
        /\ \A ws \in wss :
              /\ (\A other \in wss : ws <= other) => headerRow(ws) = 3
              /\ \A k \in 1 .. Len(WorkspaceWindows(ws)) :
                    startY(WorkspaceWindows(ws)[k]) = headerRow(ws) + k
              /\ \A next \in wss :
                    (ws < next /\ ~\E mid \in wss : ws < mid /\ mid < next)
                    => /\ headerRow(next) = lastRow(ws) + 2
                       /\ lines[lastRow(ws) + 1] = Line("blank", -1, -1)
              /\ (\A other \in wss : other <= ws)
                    => lines[lastRow(ws) + 2] = Line("footer", -1, -1)
        /\ WorkspaceOfEach = <<1, 1, 3>>
              => /\ headers = {<<1, 3>>, <<3, 7>>}
                 /\ items = <<[WindowIndex |-> 0, StartY |-> 4, EndY |-> 5],
                              [WindowIndex |-> 1, StartY |-> 5, EndY |-> 6],
                              [WindowIndex |-> 2, StartY |-> 8, EndY |-> 9]>>
                 /\ Len(lines) = 2 + (1 + 2 + 1 + 1 + 1) + 2

\* The windows are {1:[a,b], 3:[c]}, and a click on the row of c's entry has
\* resolved to c.
C11_Witness ==
    /\ WorkspaceOfEach = <<1, 1, 3>>
    /\ AfterClick
    /\ clickY = SidebarTop + ItemOf(2).StartY
    /\ clickResult = 2

\* ======================================================================
\* Properties of the graphics passthrough
\* ======================================================================
\* The IDs a placement can carry: those of the windows ever created.
PlacementIDs == WindowIDs

AfterGraphicsCmd(p) ==
    lastOp = (IF p = "kitty" THEN "GetKittyGraphicsCmd" ELSE "GetSixelGraphicsCmd")

\* The window with this ID is in the current workspace and not minimized.
InSnapshot(id) ==
    \E i \in Indices : /\ Win(i).ID = id
                        /\ Win(i).Workspace = CurrentWorkspace
                        /\ ~Win(i).Minimized

\* The fields of the geometry snapshot of the window with this ID.
SnapshotOf(id) ==
    LET w == Win(CHOOSE i \in Indices : Win(i).ID = id)
    IN  [WindowX |-> w.X, WindowY |-> w.Y, ContentOffsetX |-> 1, ContentOffsetY |-> 1,
         Width |-> w.Width, Height |-> w.Height, Visible |-> TRUE,
         ScrollbackLen |-> IF w.Terminal.present THEN w.Terminal.scrollback ELSE 0,
         ScrollOffset |-> w.ScrollbackOffset,
         IsBeingManipulated |-> w.IsBeingManipulated,
         WindowZ |-> w.Z, IsAltScreen |-> w.IsAltScreen]

\* C12: with unique window IDs, for every window ID the Sixel lookup returns
\* an info exactly when the Kitty batch map has the ID, which is exactly when
\* the window with that ID is in the current workspace and not minimized;
\* the two infos are equal and carry the window's fields with content offset
\* 1 and 1 and Visible = true; every other ID is absent from both. What a
\* refresh of either protocol was given for its placements is this snapshot.
C12_SameGeometrySnapshot ==
    /\ \A id \in PlacementIDs :
          /\ (SixelLookup(id) # NilInfo) <=> (id \in DOMAIN KittyGeometry)
          /\ (id \in DOMAIN KittyGeometry) <=> InSnapshot(id)
          /\ InSnapshot(id) => /\ KittyGeometry[id] = SixelLookup(id)
                               /\ KittyGeometry[id] = SnapshotOf(id)
    /\ DOMAIN KittyGeometry \subseteq PlacementIDs
    /\ \A p \in Protocols :
          AfterGraphicsCmd(p) =>
             \A id \in DOMAIN gfxSeen :
                /\ gfxSeen[id] = SixelLookup(id)
                /\ gfxSeen[id] = (IF id \in DOMAIN KittyGeometry
                                  THEN KittyGeometry[id] ELSE NilInfo)

\* A Sixel refresh has just looked up two placements: one of a window that
\* is shown, one of a window of another workspace.
C12_Witness ==
    /\ AfterGraphicsCmd("sixel")
    /\ DOMAIN gfxSeen = {1, 2}
    /\ \E a, b \in DOMAIN gfxSeen :
          /\ gfxSeen[a] # NilInfo
          /\ gfxSeen[a] = KittyGeometry[a]
          /\ gfxSeen[b] = NilInfo
          /\ \E i \in Indices : Win(i).ID = b /\ Win(i).Workspace # CurrentWorkspace

\* This step is a call of GetKittyGraphicsCmd or GetSixelGraphicsCmd for p.
GraphicsCmdStep(p) ==
    lastOp' = (IF p = "kitty" THEN "GetKittyGraphicsCmd" ELSE "GetSixelGraphicsCmd")

IsPrefix(a, b) == Len(a) <= Len(b) /\ a = SubSeq(b, 1, Len(a))

\* C13: in every call with a non-nil passthrough the pending buffer is flushed
\* after the conditional refresh, also when the registry holds no placement
\* and the refresh is skipped. The bytes buffered before the call, followed
\* by what this refresh produced, leave as one blob: when the device opens
\* they are written in one write; an empty blob causes no open and no write;
\* after the call the pending buffer is empty.
C13_FlushEveryFrame ==
    [][\A p \in Protocols :
          (GraphicsCmdStep(p) /\ passthrough[p].present) =>
             LET before == passthrough[p].pending
                 refreshed == DOMAIN passthrough[p].placements # {}
                 blobs == ttyLog'.written
             IN  /\ passthrough'[p].pending = <<>>
                 /\ Len(blobs) <= 1
                 /\ \A k \in DOMAIN blobs :
                       /\ IsPrefix(before, blobs[k])
                       /\ blobs[k] # <<>>
                       /\ ~refreshed => blobs[k] = before
                       /\ \A n \in (Len(before) + 1) .. Len(blobs[k]) :
                             /\ blobs[k][n].at = events
                             /\ blobs[k][n].proto = p
                             /\ blobs[k][n].id \in DOMAIN passthrough[p].placements
                 /\ (before # <<>> /\ ~ttyLog'.failed) => Len(blobs) = 1
                 /\ (before = <<>> /\ ~refreshed)
                       => ttyLog'.opens = 0 /\ blobs = <<>>
                 /\ blobs = <<>> /\ ~ttyLog'.failed => ttyLog'.opens = 0
                 /\ ttyLog'.opens <= 1
                 /\ (refreshed <=> gfxSeen' # <<>>)]_vars

\* A window with an active placement has closed, the registry is empty, and
\* the call that skipped the refresh has written the removal command.
C13_Witness ==
    /\ AfterGraphicsCmd("kitty")
    /\ passthrough["kitty"].present
    /\ DOMAIN passthrough["kitty"].placements = {}
    /\ gfxSeen = <<>>
    /\ passthrough["kitty"].pending = <<>>
    /\ ttyLog.opens = 1
    /\ Len(ttyLog.written) = 1
    /\ \E n \in DOMAIN ttyLog.written[1] : ttyLog.written[1][n].kind = "delete"

\* The window and compositor state
CompositorState ==
    <<Windows, Animations, CurrentWorkspace, FocusedWindow, DockbarPosition,
      sidebarVars, Mode, renderWidth, frameVars>>

\* C14: a failure to open the terminal device is swallowed and not retried.
\* The call opens the device once and writes nothing, window and compositor
\* state are unchanged, the flushed bytes are not put back into the pending
\* buffer, and no later call writes them.
C14_OpenFailureSwallowed ==
    [][\A p \in Protocols :
          GraphicsCmdStep(p) =>
             /\ ttyLog'.failed =>
                   /\ ttyLog'.opens = 1
                   /\ ttyLog'.written = <<>>
                   /\ passthrough'[p].pending = <<>>
                   /\ passthrough[p].pending # <<>> \/ DOMAIN passthrough[p].placements # {}
                   /\ Range(passthrough[p].pending) \subseteq ttyLog'.dropped
                   /\ \A q \in Protocols \ {p} : passthrough'[q] = passthrough[q]
             /\ UNCHANGED CompositorState
             /\ \A k \in DOMAIN ttyLog'.written :
                   Range(ttyLog'.written[k]) \cap ttyLog'.dropped = {}
             /\ Range(passthrough'[p].pending) \cap ttyLog'.dropped = {}]_vars

\* A call has failed to open the device and dropped the bytes of protocol p;
\* the next call of that protocol has found nothing to write.
C14_Witness ==
    \E p \in Protocols :
       /\ AfterGraphicsCmd(p)
       /\ \E c \in ttyLog.dropped : c.proto = p
       /\ ~ttyLog.failed
       /\ ttyLog.opens = 0
       /\ ttyLog.written = <<>>
       /\ passthrough[p].pending = <<>>

\* ======================================================================
\* Properties of the sidebar state
\* ======================================================================
\* C15: for every render width GetSidebarWidth returns floor(20% of the
\* width) clamped to [25, 50]: the result s is within [25, 50]; s = 25 only
\* if the floor is at most 25, s = 50 only if it is at least 50, and
\* otherwise s <= 20% of the width < s + 1. 40 gives 25, 1000 gives 50, 150
\* gives 30, and a render width that is not smaller gives a sidebar width
\* that is not smaller.
C15_SidebarWidthClamped ==
    [][lastOp' = "GetSidebarWidth" =>
          /\ 25 <= sidebarWidth' /\ sidebarWidth' <= 50
          /\ sidebarWidth' = 25 => 20 * renderWidth' < 100 * 26
          /\ sidebarWidth' = 50 => 100 * 50 <= 20 * renderWidth'
          /\ (25 < sidebarWidth' /\ sidebarWidth' < 50)
                => /\ 100 * sidebarWidth' <= 20 * renderWidth'
                   /\ 20 * renderWidth' < 100 * (sidebarWidth' + 1)
          /\ renderWidth' = 40 => sidebarWidth' = 25
          /\ renderWidth' = 1000 => sidebarWidth' = 50
          /\ renderWidth' = 150 => sidebarWidth' = 30
          /\ (lastOp = "GetSidebarWidth" /\ renderWidth <= renderWidth')
                => sidebarWidth <= sidebarWidth']_vars

\* The width was computed for 40 columns, then for 150: 25, then 30.
C15_Witness ==
    /\ lastOp = "GetSidebarWidth"
    /\ renderWidth = 150
    /\ sidebarWidth = 30

AfterOp(op) == lastOp = op

\* This step is a call of the operation op.
OpStep(op) == lastOp' = op

\* C16: SidebarConfirmSelection with SidebarSelectedIndex outside [0, number
\* of windows) changes nothing: focus, current workspace, mode, sidebar
\* visibility and focus and every window's minimized flag stay. With an index
\* in range it switches to the selected window's workspace, restores the
\* window if it is minimized, focuses it, hides and unfocuses the sidebar and
\* sets terminal mode.
C16_ConfirmSelection ==
    [][OpStep("SidebarConfirmSelection") =>
          IF SidebarSelectedIndex < 0 \/ SidebarSelectedIndex >= Len(Windows)
          THEN /\ UNCHANGED <<FocusedWindow, CurrentWorkspace, Mode, SidebarVisible,
                              SidebarFocused, SidebarSelectedIndex>>
               /\ Len(Windows') = Len(Windows)
               /\ \A k \in DOMAIN Windows : Windows'[k] = Windows[k]
          ELSE LET sel == SidebarSelectedIndex + 1
               IN  /\ CurrentWorkspace' = Windows[sel].Workspace
                   /\ Len(Windows') = Len(Windows)
                   /\ ~Windows'[sel].Minimized
                   /\ \A k \in DOMAIN Windows :
                         /\ k # sel => Windows'[k].Minimized = Windows[k].Minimized
                         /\ Windows'[k].ID = Windows[k].ID
                         /\ Windows'[k].Workspace = Windows[k].Workspace
                   /\ FocusedWindow' = SidebarSelectedIndex
                   /\ ~SidebarVisible'
                   /\ ~SidebarFocused'
                   /\ Mode' = "TerminalMode"]_vars

\* A confirmation with an index past the end of the list has left the
\* sidebar open and focused and the mode as it was.
C16_Witness ==
    /\ AfterOp("SidebarConfirmSelection")
    /\ NumWin > 0
    /\ SidebarSelectedIndex >= NumWin
    /\ SidebarVisible
    /\ SidebarFocused
    /\ Mode = "WindowManagementMode"

\* C17: after SidebarSelectNext or SidebarSelectPrev on a non-empty window
\* list SidebarSelectedIndex is in [0, number of windows), next from the last
\* index gives 0 and previous from 0 gives the last index, whatever the index
\* was before (-1, or stale after windows were removed); with an empty list
\* both leave the index unchanged.
C17_SelectionStaysInRange ==
    [][(OpStep("SidebarSelectNext") \/ OpStep("SidebarSelectPrev")) =>
          IF NumWin = 0
          THEN SidebarSelectedIndex' = SidebarSelectedIndex
          ELSE /\ 0 <= SidebarSelectedIndex' /\ SidebarSelectedIndex' < NumWin
               /\ (OpStep("SidebarSelectNext") /\ SidebarSelectedIndex = NumWin - 1)
                     => SidebarSelectedIndex' = 0
               /\ (OpStep("SidebarSelectPrev") /\ SidebarSelectedIndex = 0)
                     => SidebarSelectedIndex' = NumWin - 1]_vars

\* C19: SidebarFocused implies SidebarVisible after any sequence of sidebar
\* operations from a hidden, unfocused sidebar; ToggleSidebar that opens the
\* sidebar sets SidebarSelectedIndex to FocusedWindow; ToggleSidebar that
\* closes it and CloseSidebar set SidebarSelectedIndex to -1.
C19_FocusedImpliesVisible ==
    [][/\ SidebarFocused' => SidebarVisible'
       /\ SidebarFocused => SidebarVisible
       /\ OpStep("ToggleSidebar") =>
             /\ SidebarVisible' = ~SidebarVisible
             /\ SidebarVisible' => /\ SidebarSelectedIndex' = FocusedWindow
                                   /\ SidebarFocused'
             /\ ~SidebarVisible' => /\ SidebarSelectedIndex' = -1
                                    /\ ~SidebarFocused'
       /\ OpStep("CloseSidebar") =>
             /\ SidebarSelectedIndex' = -1
             /\ ~SidebarVisible'
             /\ ~SidebarFocused']_vars

\* The sidebar has been opened again after a confirmation moved the focus:
\* it is visible and focused and selects the focused window.
C19_Witness ==
    /\ AfterOp("ToggleSidebar")
    /\ SidebarVisible
    /\ SidebarFocused
    /\ Mode = "TerminalMode"
    /\ FocusedWindow > 0
    /\ SidebarSelectedIndex = FocusedWindow

====
